---- MODULE Spec2Model ----
(***************************************************************************)
(* A model of the tiled-json decoding pipeline: the hex colour parser, the *)
(* tile-data codec, the properties decoder, the object-shape resolver and  *)
(* the top-level parse.  Strings are sequences of UTF-8 bytes, as a Rust   *)
(* &str is; results are records  [tag, val, err]  with tag "ok", "err" or  *)
(* "panic".                                                                *)
(***************************************************************************)
EXTENDS Integers, Sequences, FiniteSets, TLC

VARIABLES pc, arg, out, tile

vars == <<pc, arg, out, tile>>

\* ------------------------------------------------------------------------
\* Bounds of the model
\* ------------------------------------------------------------------------

\* Number of tokens a colour string is built from (4 groups = 8 hex digits).
MaxGroups == 4

\* Longest sequence of tile ids that is written out in every encoding.
MaxTiles == 2

\* Longest JSON array of mixed elements given to the CSV path.
MaxCsv == 3

\* Most tiles of a layer that is decoded under every width and height.
MaxLayer == 4

\* Longest properties array decoded on its own.
MaxProps == 3

MaxLayers == 2

\* ------------------------------------------------------------------------
\* Results (Result<T, TiledError>, or a panic of the thread)
\* ------------------------------------------------------------------------

Ok(v) == [tag |-> "ok", val |-> v, err |-> "none"]

Err(kind) == [tag |-> "err", val |-> <<>>, err |-> kind]

Panic == [tag |-> "panic", val |-> <<>>, err |-> "panic"]

NoResult == [tag |-> "none", val |-> <<>>, err |-> "none"]

\* No get_tile call made yet
NoQuery == [x |-> [hi |-> 0, lo |-> 0], y |-> [hi |-> 0, lo |-> 0], res |-> NoResult]

\* F applied to the value of e, e being evaluated once
With(e, F(_)) == CHOOSE result \in { F(r) : r \in { e } } : TRUE

\* TiledError::Other(String), the spec's FormatError
Other == "Other"

\* ------------------------------------------------------------------------
\* Bytes and characters
\* ------------------------------------------------------------------------

RECURSIVE Concat(_)
Concat(ss) == IF ss = <<>> THEN <<>> ELSE Head(ss) \o Concat(Tail(ss))

\* s[from..to) with 0-based byte offsets, as a Rust slice
Slice(s, from, to) == SubSeq(s, from + 1, to)

IsDecDigit(b) == b >= 48 /\ b <= 57

IsHexDigit(b) == IsDecDigit(b) \/ (b >= 97 /\ b <= 102) \/ (b >= 65 /\ b <= 70)

\* char::to_digit(16) of an ASCII hex digit
HexVal(b) == IF IsDecDigit(b) THEN b - 48 ELSE IF b >= 97 THEN b - 87 ELSE b - 55

\* str::is_char_boundary: offset 0, the end, or a byte that is not a UTF-8
\* continuation byte (0x80..0xBF)
IsCharBoundary(s, i) ==
    \/ i = 0
    \/ i = Len(s)
    \/ (i < Len(s) /\ ~(s[i + 1] >= 128 /\ s[i + 1] <= 191))

\* ------------------------------------------------------------------------
\* Color::from_str
\* ------------------------------------------------------------------------

\* u8::from_str_radix(src, 16) on a slice of at most two bytes: a leading
\* '+' is accepted as a sign, a '-' is not (u8 is unsigned)
u8_from_str_radix16(src) ==
    IF src = <<>> THEN Err("Empty")
    ELSE LET digits == IF src[1] = 43 THEN Tail(src) ELSE src
         IN  IF digits = <<>> THEN Err("InvalidDigit")
             ELSE IF \E i \in 1..Len(digits) : ~IsHexDigit(digits[i])
                  THEN Err("InvalidDigit")
             ELSE IF Len(digits) = 1 THEN Ok(<<HexVal(digits[1])>>)
             ELSE Ok(<<HexVal(digits[1]) * 16 + HexVal(digits[2])>>)

\* The loop of Color::from_str from byte offset i on: color is the array
\* filled so far.  &s[i..i + 2] panics when an end is no char boundary.
RECURSIVE ColorGroups(_, _, _)
ColorGroups(s, i, color) ==
    IF i >= Len(s) THEN Ok(color)
    ELSE IF ~IsCharBoundary(s, i) \/ ~IsCharBoundary(s, i + 2) THEN Panic
    ELSE LET b == u8_from_str_radix16(Slice(s, i, i + 2))
         IN  IF b.tag # "ok" THEN Err(Other)
             ELSE ColorGroups(s, i + 2, [color EXCEPT ![i \div 2 + 1] = b.val[1]])

\* Color::from_str without the swap: the alpha byte of #aarrggbb stays first
Color_from_str_noswap(str) ==
    LET s == IF str # <<>> /\ str[1] = 35 THEN Tail(str) ELSE str
    IN  IF Len(s) # 6 /\ Len(s) # 8 THEN Err(Other)
        ELSE ColorGroups(s, 0, <<255, 255, 255, 255>>)

\* Color::from_str
Color_from_str(str) ==
    LET s == IF str # <<>> /\ str[1] = 35 THEN Tail(str) ELSE str
    IN  IF Len(s) # 6 /\ Len(s) # 8 THEN Err(Other)
        ELSE LET r == ColorGroups(s, 0, <<255, 255, 255, 255>>)
             IN  IF r.tag # "ok" THEN r
                 ELSE IF Len(s) = 8
                      THEN Ok(<<r.val[2], r.val[3], r.val[4], r.val[1]>>)
                      ELSE r

\* ---- the colour strings the parser is run on ----

\* "00", "1a", "Ff", "+f", "-1", "g0", and "0" e-acute "0" (e-acute is the
\* two bytes C3 A9, so the string's second slice ends inside a character)
ColorTokens ==
    { <<48, 48>>, <<49, 97>>, <<70, 102>>, <<43, 102>>, <<45, 49>>,
      <<103, 48>>, <<48, 195, 169, 48>> }

RECURSIVE TokenStrings(_)
TokenStrings(n) ==
    IF n = 0 THEN { <<>> }
    ELSE LET shorter == TokenStrings(n - 1)
         IN  shorter \cup { t \o s : t \in ColorTokens, s \in shorter }

ColorInputs ==
    { p \o g \o t : p \in { <<>>, <<35>> },
                    g \in TokenStrings(MaxGroups),
                    t \in { <<>>, <<48>> } }

InitColor ==
    /\ pc = "color"
    /\ arg \in ColorInputs
    /\ out = NoResult
    /\ tile = NoQuery

\* One call of Color::from_str on the drawn string
ParseColor ==
    /\ pc = "color"
    /\ out' = Color_from_str(arg)
    /\ pc' = "done"
    /\ UNCHANGED <<arg, tile>>

SpecColor == InitColor /\ [][ParseColor]_vars

\* ---- what the claims say of a colour string ----

StripHash(str) == IF str # <<>> /\ str[1] = 35 THEN Tail(str) ELSE str

AllHex(s) == \A i \in 1..Len(s) : IsHexDigit(s[i])

\* The byte of the k-th two-digit group (k from 0)
GroupByte(s, k) == HexVal(s[2 * k + 1]) * 16 + HexVal(s[2 * k + 2])

ValidColor(str) ==
    LET s == StripHash(str) IN (Len(s) = 6 \/ Len(s) = 8) /\ AllHex(s)

\* C1: a valid colour string (optional '#', then exactly 6 or 8 hex digits)
\* decodes to [b0,b1,b2,255] for 6 digits and to [b1,b2,b3,b0] for 8.
C1_ValidColorDecodes ==
    (pc = "done" /\ ValidColor(arg)) =>
        LET s == StripHash(arg)
        IN  out = IF Len(s) = 6
                  THEN Ok(<<GroupByte(s, 0), GroupByte(s, 1), GroupByte(s, 2), 255>>)
                  ELSE Ok(<<GroupByte(s, 1), GroupByte(s, 2), GroupByte(s, 3),
                            GroupByte(s, 0)>>)

\* An 8-digit string with distinct alpha and red bytes has been parsed.
C1_Witness ==
    /\ pc = "done"
    /\ ValidColor(arg)
    /\ Len(StripHash(arg)) = 8
    /\ GroupByte(StripHash(arg), 0) # GroupByte(StripHash(arg), 1)
    /\ out.tag = "ok"

\* C2: every string that is not a valid colour string (wrong length after
\* the '#', or some character that is no hex digit) yields the format error
\* and never a colour.
C2_InvalidColorFails ==
    (pc = "done" /\ ~ValidColor(arg)) => out = Err(Other)

\* ------------------------------------------------------------------------
\* u32 arithmetic.  A u32 is kept as its two 16-bit halves, value
\* hi * 65536 + lo, so that no intermediate value needs more than
\* 32 signed bits.
\* ------------------------------------------------------------------------

U32(hi, lo) == [hi |-> hi, lo |-> lo]

U32Small(n) == U32(n \div 65536, n % 65536)

\* u32::to_le_bytes
to_le_bytes(u) == <<u.lo % 256, u.lo \div 256, u.hi % 256, u.hi \div 256>>

\* The u32 of four base-256 digits, least significant first
FromDigits(d) == U32(d[4] * 256 + d[3], d[2] * 256 + d[1])

\* The bytes read most significant first (what from_le_bytes is not)
from_be_bytes(c) == U32(c[1] * 256 + c[2], c[3] * 256 + c[4])

\* u32::from_le_bytes on a chunk of four bytes
from_le_bytes(c) == U32(c[4] * 256 + c[3], c[2] * 256 + c[1])

U32Less(a, b) == a.hi < b.hi \/ (a.hi = b.hi /\ a.lo < b.lo)

\* The k-th column sum of the schoolbook product of two 4-digit numbers
RECURSIVE Column(_, _, _, _)
Column(a, b, k, i) ==
    IF i > 3 THEN 0
    ELSE (IF k - i >= 0 /\ k - i <= 3 THEN a[i + 1] * b[k - i + 1] ELSE 0)
         + Column(a, b, k, i + 1)

\* The base-256 digits k..7 of the product, least significant first
RECURSIVE ProductDigits(_, _, _, _)
ProductDigits(a, b, k, carry) ==
    IF k = 8 THEN <<>>
    ELSE LET t == Column(a, b, k, 0) + carry
         IN  <<t % 256>> \o ProductDigits(a, b, k + 1, t \div 256)

\* a * b on u32: the wrapped product and whether it overflowed
U32Mul(a, b) ==
    LET d == ProductDigits(to_le_bytes(a), to_le_bytes(b), 0, 0)
    IN  [val |-> FromDigits(SubSeq(d, 1, 4)),
         overflow |-> SubSeq(d, 5, 8) # <<0, 0, 0, 0>>]

\* a + b on u32: the wrapped sum and whether it overflowed
U32Add(a, b) ==
    LET lo == a.lo + b.lo
        hi == a.hi + b.hi + lo \div 65536
    IN  [val |-> U32(hi % 65536, lo % 65536), overflow |-> hi >= 65536]

\* ------------------------------------------------------------------------
\* serde_json::Value.  An integer holds its magnitude as the eight base-256
\* digits of a u64, least significant first (Number's PosInt(u64) and
\* NegInt(i64)); an object holds its members in document order, keys[i]
\* naming a[i].
\* ------------------------------------------------------------------------

NoDigits == <<0, 0, 0, 0, 0, 0, 0, 0>>

JNull == [k |-> "null", n |-> NoDigits, s |-> <<>>, a |-> <<>>, keys |-> <<>>]

JBool(b) ==
    [k |-> "bool", n |-> IF b THEN <<1, 0, 0, 0, 0, 0, 0, 0>> ELSE NoDigits,
     s |-> <<>>, a |-> <<>>, keys |-> <<>>]

JPosInt(digits) == [k |-> "posint", n |-> digits, s |-> <<>>, a |-> <<>>, keys |-> <<>>]

JNegInt(digits) == [k |-> "negint", n |-> digits, s |-> <<>>, a |-> <<>>, keys |-> <<>>]

\* A number with a fraction or an exponent; n names it (hundredths)
JFloat(digits) == [k |-> "float", n |-> digits, s |-> <<>>, a |-> <<>>, keys |-> <<>>]

JStr(s) == [k |-> "str", n |-> NoDigits, s |-> s, a |-> <<>>, keys |-> <<>>]

JArr(a) == [k |-> "arr", n |-> NoDigits, s |-> <<>>, a |-> a, keys |-> <<>>]

JObj(keys, a) == [k |-> "obj", n |-> NoDigits, s |-> <<>>, a |-> a, keys |-> keys]

Digits(n) == <<n % 256, (n \div 256) % 256, (n \div 65536) % 256, n \div 16777216,
               0, 0, 0, 0>>

JU32(u) == JPosInt(to_le_bytes(u) \o <<0, 0, 0, 0>>)

\* Value::as_u64: Some for a PosInt alone
as_u64(v) == IF v.k = "posint" THEN Ok(v.n) ELSE Err("None")

\* `value as u32` on a u64: the low 32 bits
as_u32(digits) == FromDigits(SubSeq(digits, 1, 4))

\* ------------------------------------------------------------------------
\* base64 (standard alphabet, '=' padding)
\* ------------------------------------------------------------------------

B64Char(i) ==
    IF i < 26 THEN 65 + i
    ELSE IF i < 52 THEN 97 + (i - 26)
    ELSE IF i < 62 THEN 48 + (i - 52)
    ELSE IF i = 62 THEN 43 ELSE 47

\* The 6-bit value of a character of the alphabet, -1 for any other byte
B64Index(c) ==
    IF c >= 65 /\ c <= 90 THEN c - 65
    ELSE IF c >= 97 /\ c <= 122 THEN c - 97 + 26
    ELSE IF c >= 48 /\ c <= 57 THEN c - 48 + 52
    ELSE IF c = 43 THEN 62
    ELSE IF c = 47 THEN 63
    ELSE -1

\* What the editor writes: the padded standard encoding of the bytes
RECURSIVE Base64Encode(_)
Base64Encode(b) ==
    IF Len(b) = 0 THEN <<>>
    ELSE IF Len(b) = 1
         THEN <<B64Char(b[1] \div 4), B64Char((b[1] % 4) * 16), 61, 61>>
    ELSE IF Len(b) = 2
         THEN <<B64Char(b[1] \div 4), B64Char((b[1] % 4) * 16 + b[2] \div 16),
                B64Char((b[2] % 16) * 4), 61>>
    ELSE <<B64Char(b[1] \div 4), B64Char((b[1] % 4) * 16 + b[2] \div 16),
           B64Char((b[2] % 16) * 4 + b[3] \div 64), B64Char(b[3] % 64)>>
         \o Base64Encode(SubSeq(b, 4, Len(b)))

\* The bytes of a run of alphabet characters (no padding), given as 6-bit
\* values; a final group of two or three characters must leave no stray bits
RECURSIVE Base64Groups(_)
Base64Groups(v) ==
    IF Len(v) = 0 THEN Ok(<<>>)
    ELSE IF Len(v) = 1 THEN Err("Base64DecodingError")
    ELSE IF Len(v) = 2
         THEN IF v[2] % 16 # 0 THEN Err("Base64DecodingError")
              ELSE Ok(<<v[1] * 4 + v[2] \div 16>>)
    ELSE IF Len(v) = 3
         THEN IF v[3] % 4 # 0 THEN Err("Base64DecodingError")
              ELSE Ok(<<v[1] * 4 + v[2] \div 16, (v[2] % 16) * 16 + v[3] \div 4>>)
    ELSE LET rest == Base64Groups(SubSeq(v, 5, Len(v)))
         IN  IF rest.tag # "ok" THEN rest
             ELSE Ok(<<v[1] * 4 + v[2] \div 16, (v[2] % 16) * 16 + v[3] \div 4,
                       (v[3] % 4) * 64 + v[4]>> \o rest.val)

\* base64::decode: a byte outside the alphabet, padding that does not
\* complete a group of four, or an impossible length is a DecodeError
base64_decode(text) ==
    LET n   == Len(text)
        pad == IF n >= 2 /\ text[n] = 61 /\ text[n - 1] = 61 THEN 2
               ELSE IF n >= 1 /\ text[n] = 61 THEN 1 ELSE 0
        body == SubSeq(text, 1, n - pad)
    IN  IF \E i \in 1..Len(body) : B64Index(body[i]) < 0
        THEN Err("Base64DecodingError")
        ELSE IF pad > 0 /\ (n % 4 # 0 \/ Len(body) % 4 # 4 - pad)
        THEN Err("Base64DecodingError")
        ELSE Base64Groups([i \in 1..Len(body) |-> B64Index(body[i])])

IsWhitespace(b) == b = 32 \/ (b >= 9 /\ b <= 13)

RECURSIVE TrimStart(_)
TrimStart(s) == IF s # <<>> /\ IsWhitespace(s[1]) THEN TrimStart(Tail(s)) ELSE s

RECURSIVE TrimEnd(_)
TrimEnd(s) ==
    IF s # <<>> /\ IsWhitespace(s[Len(s)]) THEN TrimEnd(SubSeq(s, 1, Len(s) - 1)) ELSE s

\* str::trim
Trim(s) == TrimEnd(TrimStart(s))

\* ------------------------------------------------------------------------
\* zlib and gzip streams (libflate).  The streams of this model hold their
\* data in stored (uncompressed) deflate blocks, which every deflate
\* decoder reads; Huffman-coded blocks are left out, and Inflate is not
\* defined on them.
\* ------------------------------------------------------------------------

DecompressingError == "DecompressingError"

\* Adler-32 of the data, as the four bytes of the zlib trailer (big-endian)
RECURSIVE Adler32(_, _, _)
Adler32(data, a, b) ==
    IF data = <<>> THEN <<b \div 256, b % 256, a \div 256, a % 256>>
    ELSE LET a2 == (a + Head(data)) % 65521
         IN  Adler32(Tail(data), a2, (b + a2) % 65521)

\* Bit i of a byte
Bit(x, i) == (x \div (2 ^ i)) % 2

\* Exclusive or of two bytes
XorByte(x, y) ==
    ((Bit(x, 0) + Bit(y, 0)) % 2) + ((Bit(x, 1) + Bit(y, 1)) % 2) * 2
    + ((Bit(x, 2) + Bit(y, 2)) % 2) * 4 + ((Bit(x, 3) + Bit(y, 3)) % 2) * 8
    + ((Bit(x, 4) + Bit(y, 4)) % 2) * 16 + ((Bit(x, 5) + Bit(y, 5)) % 2) * 32
    + ((Bit(x, 6) + Bit(y, 6)) % 2) * 64 + ((Bit(x, 7) + Bit(y, 7)) % 2) * 128

\* The values of a 32-bit register kept as four bytes, least significant
\* first
Register == [1..4 -> 0..255]

\* One bit of the reflected CRC-32 (polynomial EDB88320)
CrcShift[c \in Register] ==
    LET s == <<c[1] \div 2 + (c[2] % 2) * 128, c[2] \div 2 + (c[3] % 2) * 128,
               c[3] \div 2 + (c[4] % 2) * 128, c[4] \div 2>>
    IN  IF c[1] % 2 = 1
        THEN <<XorByte(s[1], 32), XorByte(s[2], 131), XorByte(s[3], 184),
               XorByte(s[4], 237)>>
        ELSE s

\* A byte xored into the register, and the eight shifts that follow
CrcByte[c \in Register, byte \in 0..255] ==
    CrcShift[CrcShift[CrcShift[CrcShift[CrcShift[CrcShift[CrcShift[CrcShift[
        <<XorByte(c[1], byte), c[2], c[3], c[4]>>]]]]]]]]

\* The register after the bytes of the data, from all ones
CrcRegister[data \in Seq(0..255)] ==
    IF data = <<>> THEN <<255, 255, 255, 255>>
    ELSE CrcByte[CrcRegister[SubSeq(data, 1, Len(data) - 1)], data[Len(data)]]

\* CRC-32 of the data, as the four bytes of the gzip trailer (little-endian)
Crc32(data) ==
    LET c == CrcRegister[data]
    IN  <<255 - c[1], 255 - c[2], 255 - c[3], 255 - c[4]>>

\* One final stored deflate block holding the data (at most 65535 bytes)
StoredBlock(data) ==
    <<1, Len(data) % 256, Len(data) \div 256,
      255 - (Len(data) % 256), 255 - (Len(data) \div 256)>> \o data

\* A zlib stream of the data: CMF 78, FLG 01, the block, Adler-32
ZlibCompress(data) == <<120, 1>> \o StoredBlock(data) \o Adler32(data, 1, 0)

\* A gzip stream of the data: the ten-byte header (no flags, no time, unknown
\* system), the block, CRC-32 and the length
GzipCompress(data) ==
    <<31, 139, 8, 0, 0, 0, 0, 0, 0, 255>> \o StoredBlock(data)
        \o Crc32(data)
        \o <<Len(data) % 256, Len(data) \div 256, 0, 0>>

\* The deflate decoder on a stream of stored blocks: the data and the bytes
\* that follow the final block
RECURSIVE Inflate(_)
Inflate(bytes) ==
    IF bytes = <<>> THEN Err(DecompressingError)
    ELSE CASE (bytes[1] \div 2) % 4 = 3 -> Err(DecompressingError)
           [] (bytes[1] \div 2) % 4 = 0 ->
                IF Len(bytes) < 5 THEN Err(DecompressingError)
                ELSE LET len  == bytes[2] + 256 * bytes[3]
                         nlen == bytes[4] + 256 * bytes[5]
                     IN  IF len + nlen # 65535 \/ Len(bytes) < 5 + len
                         THEN Err(DecompressingError)
                         ELSE LET data == SubSeq(bytes, 6, 5 + len)
                                  rest == SubSeq(bytes, 6 + len, Len(bytes))
                              IN  IF bytes[1] % 2 = 1
                                  THEN Ok([data |-> data, rest |-> rest])
                                  ELSE LET more == Inflate(rest)
                                       IN  IF more.tag # "ok" THEN more
                                           ELSE Ok([data |-> data \o more.val.data,
                                                    rest |-> more.val.rest])

\* decode_zlib: the two header bytes (method 8, window, check bits, no preset
\* dictionary), the blocks, and the Adler-32 of what they held
decode_zlib(data) ==
    IF Len(data) < 2 THEN Err(DecompressingError)
    ELSE IF \/ data[1] % 16 # 8
            \/ data[1] \div 16 > 7
            \/ (data[1] * 256 + data[2]) % 31 # 0
            \/ (data[2] \div 32) % 2 = 1
         THEN Err(DecompressingError)
    ELSE LET r == Inflate(SubSeq(data, 3, Len(data)))
         IN  IF r.tag # "ok" THEN Err(DecompressingError)
             ELSE IF \/ Len(r.val.rest) < 4
                     \/ SubSeq(r.val.rest, 1, 4) # Adler32(r.val.data, 1, 0)
                  THEN Err(DecompressingError)
             ELSE Ok(r.val.data)

\* decode_gzip: the header (magic 1f 8b, method 8; the streams here set no
\* flag), the blocks, and the CRC-32 and length of what they held
decode_gzip(data) ==
    IF Len(data) < 10 THEN Err(DecompressingError)
    ELSE IF data[1] # 31 \/ data[2] # 139 \/ data[3] # 8
         THEN Err(DecompressingError)
    ELSE CASE data[4] = 0 ->
           LET r == Inflate(SubSeq(data, 11, Len(data)))
           IN  IF r.tag # "ok" THEN Err(DecompressingError)
               ELSE IF \/ Len(r.val.rest) < 8
                       \/ SubSeq(r.val.rest, 1, 4)
                              # Crc32(r.val.data)
                       \/ SubSeq(r.val.rest, 5, 8)
                              # <<Len(r.val.data) % 256, Len(r.val.data) \div 256, 0, 0>>
                    THEN Err(DecompressingError)
               ELSE Ok(r.val.data)

\* ------------------------------------------------------------------------
\* The tile-data codec
\* ------------------------------------------------------------------------

\* The loop of decode_base64_tiledata over bytes.chunks(4): a last chunk of
\* fewer than four bytes fails try_into
RECURSIVE ReadChunks(_, _)
ReadChunks(bytes, tiles) ==
    IF bytes = <<>> THEN Ok(tiles)
    ELSE IF Len(bytes) < 4 THEN Err(Other)
    ELSE ReadChunks(SubSeq(bytes, 5, Len(bytes)),
                    Append(tiles, from_le_bytes(SubSeq(bytes, 1, 4))))

\* decode_base64_tiledata
decode_base64_tiledata(data, compression) ==
    IF data.k # "str" THEN Err(Other)
    ELSE LET decoded == base64_decode(Trim(data.s))
         IN  IF decoded.tag # "ok" THEN decoded
             ELSE LET bytes == IF compression = "gzip" THEN decode_gzip(decoded.val)
                               ELSE IF compression = "zlib" THEN decode_zlib(decoded.val)
                               ELSE decoded
                  IN  IF bytes.tag # "ok" THEN bytes
                      ELSE ReadChunks(bytes.val, <<>>)

\* The loop of decode_csv_tiledata: every element as_u64 accepts is pushed,
\* cast to u32
RECURSIVE PushNumbers(_, _)
PushNumbers(elems, tiles) ==
    IF elems = <<>> THEN tiles
    ELSE PushNumbers(Tail(elems),
                     IF as_u64(Head(elems)).tag = "ok"
                     THEN Append(tiles, as_u32(as_u64(Head(elems)).val))
                     ELSE tiles)

\* decode_csv_tiledata
decode_csv_tiledata(data) ==
    IF data.k = "arr" THEN Ok(PushNumbers(data.a, <<>>)) ELSE Err(Other)

\* decode_tiledata.  width * height is a u32 product: with overflow checks
\* (the debug profile) an overflowing product panics, without them (the
\* release profile) it wraps and only sizes the allocation.
decode_tiledata(data, width, height, encoding, compression, profile) ==
    IF U32Mul(width, height).overflow /\ profile = "debug" THEN Panic
    ELSE IF encoding = "base64" THEN decode_base64_tiledata(data, compression)
    ELSE decode_csv_tiledata(data)

\* TileLayer::from
TileLayer_from(layer_data, profile) ==
    LET tiles == decode_tiledata(layer_data.data, layer_data.width, layer_data.height,
                                 layer_data.encoding, layer_data.compression, profile)
    IN  IF tiles.tag # "ok" THEN tiles
        ELSE Ok([width |-> layer_data.width, height |-> layer_data.height,
                 tiles |-> tiles.val])

\* get_tile with rows and columns confused: y + x * self.height
get_tile_column_major(layer, x, y, profile) ==
    LET prod == U32Mul(x, layer.height)
        sum  == U32Add(y, prod.val)
    IN  IF (prod.overflow \/ sum.overflow) /\ profile = "debug" THEN Panic
        ELSE IF sum.val.hi = 0 /\ sum.val.lo < Len(layer.tiles)
             THEN Ok(<<layer.tiles[sum.val.lo + 1]>>)
             ELSE Panic

\* TileLayer::get_tile: x + y * self.width on u32 (an overflow panics under
\* overflow checks and wraps without), then the indexing, which panics
\* outside the vector
get_tile(layer, x, y, profile) ==
    LET prod == U32Mul(y, layer.width)
        sum  == U32Add(x, prod.val)
    IN  IF (prod.overflow \/ sum.overflow) /\ profile = "debug" THEN Panic
        ELSE IF sum.val.hi = 0 /\ sum.val.lo < Len(layer.tiles)
             THEN Ok(<<layer.tiles[sum.val.lo + 1]>>)
             ELSE Panic

\* ------------------------------------------------------------------------
\* Tile layers: the documents decoded
\* ------------------------------------------------------------------------

\* 0, 0x01020304 and u32::MAX
TileIds == { U32(0, 0), U32(258, 772), U32(65535, 65535) }

RECURSIVE SeqsUpTo(_, _)
SeqsUpTo(S, n) ==
    IF n = 0 THEN { <<>> }
    ELSE LET shorter == SeqsUpTo(S, n - 1)
         IN  shorter \cup { <<e>> \o s : e \in S, s \in { q \in shorter : Len(q) = n - 1 } }

IdSeqs == SeqsUpTo(TileIds, MaxTiles)

\* 0, 1, 2, 3, 65536 and u32::MAX
Dims == { U32(0, 0), U32(0, 1), U32(0, 2), U32(0, 3), U32(1, 0), U32(65535, 65535) }

Coords == { U32(0, 0), U32(0, 1), U32(0, 2) }

Profiles == { "debug", "release" }

\* The bytes of a sequence of tile ids: each as four little-endian bytes
RECURSIVE IdBytes(_)
IdBytes(ids) ==
    IF ids = <<>> THEN <<>> ELSE to_le_bytes(Head(ids)) \o IdBytes(Tail(ids))

Compress(bytes, compression) ==
    IF compression = "zlib" THEN ZlibCompress(bytes)
    ELSE IF compression = "gzip" THEN GzipCompress(bytes)
    ELSE bytes

\* TileLayerData: the fields of a tile layer's record ("absent" for a
\* missing encoding or compression)
LayerData(data, width, height, encoding, compression) ==
    [data |-> data, width |-> width, height |-> height,
     encoding |-> encoding, compression |-> compression]

\* The same ids written as a number array and as base64 text
CsvData(ids) == JArr([i \in 1..Len(ids) |-> JU32(ids[i])])

Base64Data(ids, compression) == JStr(Base64Encode(Compress(IdBytes(ids), compression)))

\* Every way the editor writes the ids: [data, encoding, compression]
Writings(ids) ==
    { <<CsvData(ids), "absent", "absent">>, <<CsvData(ids), "csv", "absent">> }
    \cup { <<Base64Data(ids, c), "base64", c>> : c \in { "absent", "zlib", "gzip" } }
    \cup { <<JStr(<<10, 32>> \o Base64Data(ids, "zlib").s \o <<32, 10>>), "base64", "zlib">> }

\* A document: the layer record, the build profile, and how it was written
\* (family, and the ids it was written from)
Doc(family, ids, layer, profile) ==
    [family |-> family, ids |-> ids, layer |-> layer, profile |-> profile]

\* Layers whose ids are written in every encoding, width * height being the
\* number of ids
WrittenDocs ==
    UNION { { Doc("written", ids, LayerData(w[1], d[1], d[2], w[2], w[3]), p) :
                w \in Writings(ids),
                d \in { <<U32Small(Len(ids)), U32Small(1)>>,
                        <<U32Small(1), U32Small(Len(ids))>> },
                p \in Profiles } : ids \in IdSeqs }

\* Layers of 0 to MaxLayer distinct ids under every width and height
LayerIds ==
    { [i \in 1..n |-> U32(i, 256 * i)] : n \in 0..MaxLayer }

SizedDocs ==
    UNION { { Doc("sized", ids, LayerData(w[1], width, height, w[2], w[3]), p) :
                w \in { <<CsvData(ids), "absent", "absent">>,
                        <<Base64Data(ids, "absent"), "base64", "absent">> },
                width \in Dims, height \in Dims, p \in Profiles } : ids \in LayerIds }

\* 7, u32::MAX, 2^32, 2^32 + 5, -1, 1.5, "x" and null
CsvElems ==
    { JPosInt(Digits(7)), JPosInt(<<255, 255, 255, 255, 0, 0, 0, 0>>),
      JPosInt(<<0, 0, 0, 0, 1, 0, 0, 0>>), JPosInt(<<5, 0, 0, 0, 1, 0, 0, 0>>),
      JNegInt(Digits(1)), JFloat(Digits(150)), JStr(<<120>>), JNull }

\* Number arrays with stray elements, and data that is no array, on the CSV
\* path
MixedDocs ==
    { Doc("mixed", <<>>, LayerData(data, U32Small(1), U32Small(1), e, "absent"), p) :
        data \in { JArr(a) : a \in SeqsUpTo(CsvElems, MaxCsv) }
                 \cup { JStr(<<65, 81, 61, 61>>), JNull, JPosInt(Digits(7)),
                        JObj(<<>>, <<>>), JBool(TRUE) },
        e \in { "absent", "csv" }, p \in Profiles }

\* A stream with its last byte changed
Damaged(bytes) == [bytes EXCEPT ![Len(bytes)] = (bytes[Len(bytes)] + 1) % 256]

\* Base64 data that cannot be decoded: a byte outside the alphabet, a length
\* no text has, data cut inside a tile id, data that is no string, and a
\* stream whose checksum or header is wrong or that is of the other format
BrokenData(ids, c) ==
    { <<"badchar", JStr(<<33>> \o Tail(Base64Data(ids, c).s))>>,
      <<"badlength", JStr(Base64Data(ids, c).s \o <<65>>)>>,
      <<"cut", JStr(Base64Encode(Compress(SubSeq(IdBytes(ids), 1, 4 * Len(ids) - 1), c)))>>,
      <<"notastring", CsvData(ids)>> }
    \cup (IF c = "absent" THEN {}
          ELSE { <<"badsum", JStr(Base64Encode(Damaged(Compress(IdBytes(ids), c))))>>,
                 <<"badheader", JStr(Base64Encode(<<0>> \o Tail(Compress(IdBytes(ids), c))))>>,
                 <<"otherformat", JStr(Base64Encode(Compress(IdBytes(ids),
                                        IF c = "zlib" THEN "gzip" ELSE "zlib")))>> })

BrokenDocs ==
    UNION { { Doc(b[1], ic[1], LayerData(b[2], U32Small(Len(ic[1])), U32Small(1),
                                         "base64", ic[2]), p) :
                b \in BrokenData(ic[1], ic[2]), p \in Profiles } :
            ic \in { i \in IdSeqs : Len(i) = 1 } \X { "absent", "zlib", "gzip" } }

TileDocs == WrittenDocs \cup SizedDocs \cup MixedDocs \cup BrokenDocs

InitTiles ==
    /\ pc = "layer"
    /\ arg \in TileDocs
    /\ out = NoResult
    /\ tile = NoQuery

\* TileLayer::deserialize: the record is read, then TileLayer::from decodes it
DeserializeLayer ==
    /\ pc = "layer"
    /\ out' = TileLayer_from(arg.layer, arg.profile)
    /\ pc' = "decoded"
    /\ UNCHANGED <<arg, tile>>

\* One call of get_tile on the decoded layer
GetTile ==
    /\ pc = "decoded"
    /\ out.tag = "ok"
    /\ \E x \in Coords, y \in Coords :
          tile' = [x |-> x, y |-> y, res |-> get_tile(out.val, x, y, arg.profile)]
    /\ pc' = "queried"
    /\ UNCHANGED <<arg, out>>

NextTiles == DeserializeLayer \/ GetTile

SpecTiles == InitTiles /\ [][NextTiles]_vars

\* ---- what the claims say of the codec and of a tile layer ----

\* The tiles of a decoded layer, or the failure
Outcome(r) == IF r.tag = "ok" THEN Ok(r.val.tiles) ELSE r

\* C3: the ids written as a number array (encoding csv or absent) and as
\* base64 text (uncompressed, zlib or gzip) all decode to the ids written.
C3_CrossEncoding ==
    (pc # "layer" /\ arg.family = "written") => Outcome(out) = Ok(arg.ids)

\* Two different ids written as zlib-compressed base64 have been decoded.
C3_Witness ==
    /\ pc = "decoded"
    /\ arg.family = "written"
    /\ arg.layer.encoding = "base64"
    /\ arg.layer.compression = "zlib"
    /\ Len(arg.ids) >= 2
    /\ arg.ids[1] # arg.ids[2]
    /\ Outcome(out) = Ok(arg.ids)

IsNonNegativeInteger(v) == v.k = "posint"

\* C4: on the CSV path an array decodes to exactly its non-negative integer
\* elements, in order, each entry equal to the element's value; data that
\* is no array is a format error.
C4_CsvSubsequence ==
    (pc # "layer" /\ arg.family = "mixed") =>
        IF arg.layer.data.k = "arr"
        THEN /\ out.tag = "ok"
             /\ [i \in 1..Len(out.val.tiles) |-> JU32(out.val.tiles[i])]
                    = SelectSeq(arg.layer.data.a, IsNonNegativeInteger)
        ELSE out = Err(Other)

\* C9: the outcome of the codec is the one it has for any other width and
\* height (here 1 by 1): width and height never make it fail.
C9_DimsAreHint ==
    pc # "layer" =>
        Outcome(out) = decode_tiledata(arg.layer.data, U32(0, 1), U32(0, 1),
                                       arg.layer.encoding, arg.layer.compression,
                                       arg.profile)

InRange == U32Less(tile.x, out.val.width) /\ U32Less(tile.y, out.val.height)

\* x + y * width = i, for an i small enough to index the tiles
IndexIs(x, y, width, i) ==
    /\ x.hi = 0
    /\ x.lo <= i
    /\ IF i = x.lo THEN y = U32(0, 0) \/ width = U32(0, 0)
       ELSE /\ y.hi = 0 /\ width.hi = 0
            /\ y.lo <= i /\ width.lo <= i
            /\ y.lo * width.lo = i - x.lo

\* C10 as stated: for x < width and y < height get_tile returns the tile at
\* x + y * width and does not fail.
C10_GetTileNeverFails ==
    (pc = "queried" /\ InRange) =>
        \E i \in 0..(Len(out.val.tiles) - 1) :
            /\ IndexIs(tile.x, tile.y, out.val.width, i)
            /\ tile.res = Ok(<<out.val.tiles[i + 1]>>)

\* C10, amended: for x < width and y < height, when x + y * width is inside
\* the decoded tiles get_tile returns the tile at that index.
C10_GetTileInside ==
    (pc = "queried" /\ InRange) =>
        \A i \in 0..(Len(out.val.tiles) - 1) :
            IndexIs(tile.x, tile.y, out.val.width, i)
                => tile.res = Ok(<<out.val.tiles[i + 1]>>)

\* A tile off the first row and off the first column has been returned.
C10_Witness ==
    /\ pc = "queried"
    /\ InRange
    /\ tile.x # U32(0, 0)
    /\ tile.y # U32(0, 0)
    /\ \E i \in 0..(Len(out.val.tiles) - 1) :
          /\ IndexIs(tile.x, tile.y, out.val.width, i)
          /\ tile.res = Ok(<<out.val.tiles[i + 1]>>)

\* ------------------------------------------------------------------------
\* The properties decoder
\* ------------------------------------------------------------------------

\* The strings "name", "type", "value" and the type tags, as bytes
StrName == <<110, 97, 109, 101>>

StrType == <<116, 121, 112, 101>>

StrValue == <<118, 97, 108, 117, 101>>

StrBool == <<98, 111, 111, 108>>

StrFloat == <<102, 108, 111, 97, 116>>

StrInt == <<105, 110, 116>>

StrColor == <<99, 111, 108, 111, 114>>

StrString == <<115, 116, 114, 105, 110, 103>>

StrFile == <<102, 105, 108, 101>>

\* A field that is not in the document
JAbsent == [k |-> "absent", n |-> NoDigits, s |-> <<>>, a |-> <<>>, keys |-> <<>>]

\* A decoded Color, kept in the shape of a value: s holds r, g, b, a
JColor(rgba) == [k |-> "color", n |-> NoDigits, s |-> rgba, a |-> <<>>, keys |-> <<>>]

IsNumber(v) == v.k \in { "posint", "negint", "float" }

IsScalar(v) == v.k \in { "null", "bool", "posint", "negint", "float", "str" }

\* The positions of a key among an object's members
Positions(obj, key) == { i \in 1..Len(obj.keys) : obj.keys[i] = key }

\* A number read as f32: a float as it is, a small non-negative integer as
\* that many hundredths
ToF32(v) ==
    CASE v.k = "float" -> v
      [] v.k = "posint" /\ SubSeq(v.n, 3, 8) = <<0, 0, 0, 0, 0, 0>> ->
            JFloat(Digits(100 * (v.n[1] + 256 * v.n[2])))

\* Whether an integer fits an i32
FitsI32(v) ==
    /\ SubSeq(v.n, 5, 8) = <<0, 0, 0, 0>>
    /\ \/ v.n[4] < 128
       \/ (v.k = "negint" /\ SubSeq(v.n, 1, 4) = <<0, 0, 0, 128>>)

\* The Property variants
Property(variant, value) == [variant |-> variant, value |-> value]

\* The content of a Property, decoded as its type tag says
PropertyContent(type, v) ==
    IF type.k # "str" THEN Err("serde")
    ELSE IF type.s = StrBool
         THEN IF v.k = "bool" THEN Ok(Property("Bool", v)) ELSE Err("serde")
    ELSE IF type.s = StrFloat
         THEN IF IsNumber(v) THEN Ok(Property("Float", ToF32(v))) ELSE Err("serde")
    ELSE IF type.s = StrInt
         THEN IF v.k \in { "posint", "negint" } /\ FitsI32(v)
              THEN Ok(Property("Int", v)) ELSE Err("serde")
    ELSE IF type.s = StrColor
         THEN IF v.k # "str" THEN Err("serde")
              ELSE With(Color_from_str(v.s), LAMBDA c :
                     IF c.tag = "ok" THEN Ok(Property("Color", JColor(c.val)))
                     ELSE IF c.tag = "panic" THEN Panic
                     ELSE Err("serde"))
    ELSE IF type.s = StrString
         THEN IF v.k = "str" THEN Ok(Property("String", v)) ELSE Err("serde")
    ELSE IF type.s = StrFile
         THEN IF v.k = "str" THEN Ok(Property("File", v)) ELSE Err("serde")
    ELSE Err("serde")

\* Property, adjacently tagged (tag "type", content "value"), from the
\* members of a record: one "type", one "value", in either order
Property_deserialize(obj) ==
    IF Cardinality(Positions(obj, StrType)) # 1
       \/ Cardinality(Positions(obj, StrValue)) # 1
    THEN Err("serde")
    ELSE PropertyContent(obj.a[CHOOSE i \in Positions(obj, StrType) : TRUE],
                         obj.a[CHOOSE i \in Positions(obj, StrValue) : TRUE])

\* PropertyValue: a record with a string "name" and, flattened, a Property
PropertyValue_deserialize(e) ==
    IF e.k # "obj" THEN Err("serde")
    ELSE IF \E i \in Positions(e, StrName) : e.a[i].k # "str" THEN Err("serde")
    ELSE IF Cardinality(Positions(e, StrName)) # 1 THEN Err("serde")
    ELSE With(Property_deserialize(e), LAMBDA p :
           IF p.tag # "ok" THEN p
           ELSE Ok([name |-> e.a[CHOOSE i \in Positions(e, StrName) : TRUE].s,
                    value |-> p.val]))

\* An insert that keeps the value a name already has
InsertIfAbsent(map, name, value) == map @@ (name :> value)

\* HashMap::insert: a later value replaces an earlier one of the same name
Insert(map, name, value) == (name :> value) @@ map

\* PropertiesVisitor::visit_seq from element i on
RECURSIVE visit_seq(_, _, _)
visit_seq(elems, i, map) ==
    IF i > Len(elems) THEN Ok(map)
    ELSE With(PropertyValue_deserialize(elems[i]), LAMBDA value :
           IF value.tag # "ok" THEN value
           ELSE visit_seq(elems, i + 1, Insert(map, value.val.name, value.val.value)))

\* Option<Properties>
Some(map) == [some |-> TRUE, map |-> map]

None == [some |-> FALSE, map |-> <<>>]

\* deserializer.deserialize_seq(PropertiesVisitor) on the value of a
\* properties field
deserialize_seq(v) ==
    IF v.k # "arr" THEN Err("serde") ELSE visit_seq(v.a, 1, <<>>)

\* deserialize_properties: any error of deserialize_seq becomes None (a
\* panic is no error and unwinds)
deserialize_properties(v) ==
    With(deserialize_seq(v), LAMBDA r :
      IF r.tag = "ok" THEN Ok(Some(r.val))
      ELSE IF r.tag = "panic" THEN Panic
      ELSE Ok(None))

\* ---- the properties arrays decoded ----

PropNames == { <<112, 105>>, <<97, 110, 115, 119, 101, 114>> }

\* float 3.14, float 3, int 42, bool true, color "#80ff0000", string "hi",
\* file "hi"
TypedValues ==
    { <<StrFloat, JFloat(Digits(314))>>, <<StrFloat, JPosInt(Digits(3))>>,
      <<StrInt, JPosInt(Digits(42))>>, <<StrBool, JBool(TRUE)>>,
      <<StrColor, JStr(<<35, 56, 48, 102, 102, 48, 48, 48, 48>>)>>,
      <<StrString, JStr(<<104, 105>>)>>, <<StrFile, JStr(<<104, 105>>)>> }

Record(name, type, value) ==
    JObj(<<StrName, StrType, StrValue>>, <<JStr(name), JStr(type), value>>)

GoodRecords ==
    { Record(n, tv[1], tv[2]) : n \in PropNames, tv \in TypedValues }
    \cup { JObj(<<StrValue, StrType, StrName>>,
                <<JPosInt(Digits(7)), JStr(StrInt), JStr(<<112, 105>>)>>) }

\* No value, an unknown type, a value of the wrong type, an int that does
\* not fit, a colour that is none
BadRecords ==
    { JObj(<<StrName, StrType>>, <<JStr(<<112, 105>>), JStr(StrInt)>>),
      Record(<<112, 105>>, <<98, 111, 103, 117, 115>>, JPosInt(Digits(1))),
      Record(<<112, 105>>, StrInt, JStr(<<104, 105>>)),
      Record(<<112, 105>>, StrInt, JPosInt(<<0, 0, 0, 128, 0, 0, 0, 0>>)),
      Record(<<112, 105>>, StrColor, JStr(<<122, 122, 48, 48, 48, 48>>)) }

PropsInputs == { JArr(a) : a \in SeqsUpTo(GoodRecords \cup BadRecords, MaxProps) }

InitProps ==
    /\ pc = "properties"
    /\ arg \in PropsInputs
    /\ out = NoResult
    /\ tile = NoQuery

\* One call of deserialize_properties on the drawn array
DeserializeProperties ==
    /\ pc = "properties"
    /\ out' = deserialize_properties(arg)
    /\ pc' = "done"
    /\ UNCHANGED <<arg, tile>>

SpecProps == InitProps /\ [][DeserializeProperties]_vars

\* ---- what the claims say of a properties array ----

Member(e, key) == e.a[CHOOSE i \in Positions(e, key) : TRUE]

\* A value of the kind its type tag announces
Conforms(type, v) ==
    \/ type = StrBool /\ v.k = "bool"
    \/ type = StrFloat /\ IsNumber(v)
    \/ type = StrInt /\ v.k \in { "posint", "negint" } /\ FitsI32(v)
    \/ type = StrColor /\ v.k = "str" /\ ValidColor(v.s)
    \/ type \in { StrString, StrFile } /\ v.k = "str"

\* A {name, type, value} record
IsPropertyRecord(e) ==
    /\ e.k = "obj"
    /\ Len(e.keys) = 3
    /\ \A key \in { StrName, StrType, StrValue } : Positions(e, key) # {}
    /\ Member(e, StrName).k = "str"
    /\ Member(e, StrType).k = "str"
    /\ Conforms(Member(e, StrType).s, Member(e, StrValue))

\* The variant a type tag selects, holding the record's value
ExpectedProperty(e) ==
    LET type == Member(e, StrType).s
        v    == Member(e, StrValue)
    IN  CASE type = StrBool   -> Property("Bool", v)
          [] type = StrFloat  -> Property("Float", ToF32(v))
          [] type = StrInt    -> Property("Int", v)
          [] type = StrColor  -> Property("Color", JColor(Color_from_str(v.s).val))
          [] type = StrString -> Property("String", v)
          [] type = StrFile   -> Property("File", v)

\* The last record of the array with the name
LastNamed(a, name) ==
    a[CHOOSE i \in 1..Len(a) :
        /\ Member(a[i], StrName).s = name
        /\ \A j \in (i + 1)..Len(a) : Member(a[j], StrName).s # name]

\* C5: an array of {name, type, value} records decodes to a mapping whose
\* keys are the names of the array, each name holding the variant its type
\* tag selects with the value of the last record of that name.
C5_PropertiesMapping ==
    (pc = "done" /\ \A i \in 1..Len(arg.a) : IsPropertyRecord(arg.a[i])) =>
        /\ out.tag = "ok"
        /\ out.val.some
        /\ DOMAIN out.val.map = { Member(arg.a[i], StrName).s : i \in 1..Len(arg.a) }
        /\ \A name \in DOMAIN out.val.map :
              out.val.map[name] = ExpectedProperty(LastNamed(arg.a, name))

\* An array in which a name occurs twice, with different values, is decoded.
C5_Witness ==
    /\ pc = "done"
    /\ \A i \in 1..Len(arg.a) : IsPropertyRecord(arg.a[i])
    /\ \E i, j \in 1..Len(arg.a) :
          /\ i < j
          /\ Member(arg.a[i], StrName) = Member(arg.a[j], StrName)
          /\ ExpectedProperty(arg.a[i]) # ExpectedProperty(arg.a[j])
    /\ out.tag = "ok"
    /\ out.val.some

\* ------------------------------------------------------------------------
\* Objects and their shapes (lib.rs)

StrPoint == <<112, 111, 105, 110, 116>>

StrEllipse == <<101, 108, 108, 105, 112, 115, 101>>

StrWidth == <<119, 105, 100, 116, 104>>

StrHeight == <<104, 101, 105, 103, 104, 116>>

StrPolyline == <<112, 111, 108, 121, 108, 105, 110, 101>>

StrPolygon == <<112, 111, 108, 121, 103, 111, 110>>

StrText == <<116, 101, 120, 116>>

StrWrap == <<119, 114, 97, 112>>

StrFontFamily == <<102, 111, 110, 116, 102, 97, 109, 105, 108, 121>>

StrPixelSize == <<112, 105, 120, 101, 108, 115, 105, 122, 101>>

StrX == <<120>>

StrY == <<121>>

StrId == <<105, 100>>

StrRotation == <<114, 111, 116, 97, 116, 105, 111, 110>>

StrVisible == <<118, 105, 115, 105, 98, 108, 101>>

StrProperties == <<112, 114, 111, 112, 101, 114, 116, 105, 101, 115>>

StrGid == <<103, 105, 100>>

\* A struct field read from the members of a record: the member of that
\* key, JAbsent when there is none
Get(obj, key) ==
    IF Positions(obj, key) = {} THEN JAbsent
    ELSE obj.a[CHOOSE i \in Positions(obj, key) : TRUE]

\* A derived struct rejects a key it knows and meets twice
Duplicate(obj, keys) == \E key \in keys : Cardinality(Positions(obj, key)) > 1

IsU32(v) == v.k = "posint" /\ SubSeq(v.n, 5, 8) = <<0, 0, 0, 0>>

\* Point { x: f32, y: f32 }, from a record or from a sequence of its fields
Point_deserialize(v) ==
    CASE v.k = "obj" ->
            IF ~Duplicate(v, { StrX, StrY }) /\ IsNumber(Get(v, StrX)) /\ IsNumber(Get(v, StrY))
            THEN Ok([x |-> ToF32(Get(v, StrX)), y |-> ToF32(Get(v, StrY))])
            ELSE Err("serde")
      [] v.k = "arr" ->
            IF Len(v.a) = 2 /\ IsNumber(v.a[1]) /\ IsNumber(v.a[2])
            THEN Ok([x |-> ToF32(v.a[1]), y |-> ToF32(v.a[2])])
            ELSE Err("serde")
      [] OTHER -> Err("serde")

\* Vec<Point>
Points_deserialize(v) ==
    IF v.k # "arr" THEN Err("serde")
    ELSE With([i \in 1..Len(v.a) |-> Point_deserialize(v.a[i])], LAMBDA points :
           IF \A i \in 1..Len(points) : points[i].tag = "ok"
           THEN Ok([i \in 1..Len(points) |-> points[i].val])
           ELSE Err("serde"))

\* Option<String> and Option<u32>: a missing member and null are None
IsOptionString(v) == v.k \in { "absent", "null", "str" }

IsOptionU32(v) == v.k \in { "absent", "null" } \/ IsU32(v)

OptionOf(v) == IF v.k = "absent" THEN JNull ELSE v

\* Text { text, wrap, fontfamily, pixelsize }, from a record or from a
\* sequence of its four fields
Text_deserialize(v) ==
    CASE v.k = "obj" ->
            IF /\ ~Duplicate(v, { StrText, StrWrap, StrFontFamily, StrPixelSize })
               /\ Get(v, StrText).k = "str"
               /\ Get(v, StrWrap).k = "bool"
               /\ IsOptionString(Get(v, StrFontFamily))
               /\ IsOptionU32(Get(v, StrPixelSize))
            THEN Ok([text |-> Get(v, StrText), wrap |-> Get(v, StrWrap),
                     font_family |-> OptionOf(Get(v, StrFontFamily)),
                     pixel_size |-> OptionOf(Get(v, StrPixelSize))])
            ELSE Err("serde")
      [] v.k = "arr" ->
            IF /\ Len(v.a) = 4
               /\ v.a[1].k = "str"
               /\ v.a[2].k = "bool"
               /\ IsOptionString(v.a[3])
               /\ IsOptionU32(v.a[4])
            THEN Ok([text |-> v.a[1], wrap |-> v.a[2],
                     font_family |-> v.a[3], pixel_size |-> v.a[4]])
            ELSE Err("serde")
      [] OTHER -> Err("serde")

NoText == [text |-> JAbsent, wrap |-> JAbsent, font_family |-> JAbsent, pixel_size |-> JAbsent]

\* The values of ObjectShape
Shape(variant, width, height, points, text) ==
    [variant |-> variant, width |-> width, height |-> height,
     points |-> points, text |-> text]

Unknown == Shape("Unknown", JAbsent, JAbsent, <<>>, NoText)

\* The values of ObjectShapeData: Point and Ellipse keep their flag
Data(variant, flag, width, height, points, text) ==
    [variant |-> variant, flag |-> flag, width |-> width, height |-> height,
     points |-> points, text |-> text]

\* The variants of ObjectShapeData, each read from the buffered members c
PointData(c) ==
    IF ~Duplicate(c, { StrPoint }) /\ Get(c, StrPoint).k = "bool"
    THEN Ok(Data("Point", Get(c, StrPoint), JAbsent, JAbsent, <<>>, NoText))
    ELSE Err("serde")

HasSize(c) ==
    /\ ~Duplicate(c, { StrWidth, StrHeight })
    /\ IsNumber(Get(c, StrWidth))
    /\ IsNumber(Get(c, StrHeight))

EllipseData(c) ==
    IF ~Duplicate(c, { StrEllipse }) /\ Get(c, StrEllipse).k = "bool" /\ HasSize(c)
    THEN Ok(Data("Ellipse", Get(c, StrEllipse),
                 ToF32(Get(c, StrWidth)), ToF32(Get(c, StrHeight)), <<>>, NoText))
    ELSE Err("serde")

PolylineData(c) ==
    With(Points_deserialize(Get(c, StrPolyline)), LAMBDA points :
      IF ~Duplicate(c, { StrPolyline }) /\ points.tag = "ok"
      THEN Ok(Data("Polyline", JAbsent, JAbsent, JAbsent, points.val, NoText))
      ELSE Err("serde"))

PolygonData(c) ==
    With(Points_deserialize(Get(c, StrPolygon)), LAMBDA points :
      IF ~Duplicate(c, { StrPolygon }) /\ points.tag = "ok"
      THEN Ok(Data("Polygon", JAbsent, JAbsent, JAbsent, points.val, NoText))
      ELSE Err("serde"))

TextData(c) ==
    With(Text_deserialize(Get(c, StrText)), LAMBDA text :
      IF ~Duplicate(c, { StrText }) /\ text.tag = "ok" /\ HasSize(c)
      THEN Ok(Data("Text", JAbsent, ToF32(Get(c, StrWidth)), ToF32(Get(c, StrHeight)),
                   <<>>, text.val))
      ELSE Err("serde"))

RectData(c) ==
    IF HasSize(c)
    THEN Ok(Data("Rect", JAbsent, ToF32(Get(c, StrWidth)), ToF32(Get(c, StrHeight)), <<>>, NoText))
    ELSE Err("serde")

\* The first of the attempts that succeeds, the last error when none does
RECURSIVE FirstOk(_)
FirstOk(attempts) ==
    IF Len(attempts) = 1 \/ Head(attempts).tag = "ok" THEN Head(attempts)
    ELSE FirstOk(Tail(attempts))

\* The variants tried with Rect ahead of Text
ObjectShapeData_deserialize_rect_first(c) ==
    FirstOk(<<PointData(c), EllipseData(c), PolylineData(c), PolygonData(c),
              RectData(c), TextData(c)>>)

\* ObjectShapeData, untagged: the variants are tried in the order of their
\* declaration
ObjectShapeData_deserialize(c) ==
    FirstOk(<<PointData(c), EllipseData(c), PolylineData(c), PolygonData(c),
              TextData(c), RectData(c)>>)

\* ObjectShape::from: the variant of the same name (Point keeps nothing,
\* Ellipse drops its flag)
ObjectShape_from(data) ==
    CASE data.variant = "Point" -> Shape("Point", JAbsent, JAbsent, <<>>, NoText)
      [] data.variant = "Rect" -> Shape("Rect", data.width, data.height, <<>>, NoText)
      [] data.variant = "Ellipse" -> Shape("Ellipse", data.width, data.height, <<>>, NoText)
      [] data.variant = "Polyline" -> Shape("Polyline", JAbsent, JAbsent, data.points, NoText)
      [] data.variant = "Polygon" -> Shape("Polygon", JAbsent, JAbsent, data.points, NoText)
      [] data.variant = "Text" -> Shape("Text", data.width, data.height, <<>>, data.text)

\* ObjectShape::deserialize: Unknown when no variant reads
ObjectShape_deserialize(c) ==
    With(ObjectShapeData_deserialize(c), LAMBDA r :
      IF r.tag = "ok" THEN Ok(ObjectShape_from(r.val)) ELSE Ok(Unknown))

\* The members of a record whose key is not among keys, in their order
Without(obj, keys) ==
    LET kept == { i \in 1..Len(obj.keys) : obj.keys[i] \notin keys }
        nth(n) == CHOOSE i \in kept : Cardinality({ j \in kept : j < i }) = n - 1
    IN  JObj([n \in 1..Cardinality(kept) |-> obj.keys[nth(n)]],
             [n \in 1..Cardinality(kept) |-> obj.a[nth(n)]])

\* The named fields of Object; every other member goes to the flattened shape
ObjectFields ==
    { StrId, StrName, StrType, StrX, StrY, StrRotation, StrVisible, StrProperties }

\* Object, read from buffered content (an object sits inside a layer's
\* flattened, tagged LayerType)
Object_deserialize(v) ==
    IF v.k # "obj" THEN Err("serde")
    ELSE IF \/ Duplicate(v, ObjectFields)
            \/ ~IsU32(Get(v, StrId))
            \/ Get(v, StrName).k # "str"
            \/ Get(v, StrType).k # "str"
            \/ \E key \in { StrX, StrY, StrRotation } : ~IsNumber(Get(v, key))
            \/ Get(v, StrVisible).k # "bool"
         THEN Err("serde")
    ELSE With(IF Get(v, StrProperties).k = "absent" THEN Ok(None)
              ELSE deserialize_properties(Get(v, StrProperties)), LAMBDA properties :
           IF properties.tag # "ok" THEN properties
           ELSE Ok([id |-> as_u32(Get(v, StrId).n),
                    name |-> Get(v, StrName).s,
                    type |-> Get(v, StrType).s,
                    x |-> ToF32(Get(v, StrX)),
                    y |-> ToF32(Get(v, StrY)),
                    rotation |-> ToF32(Get(v, StrRotation)),
                    visible |-> Get(v, StrVisible),
                    shape |-> ObjectShape_deserialize(Without(v, ObjectFields)).val,
                    properties |-> properties.val]))

\* ---- the object records decoded ----

\* A record of the members that are there
Members(fields) ==
    LET there == { i \in 1..Len(fields) : fields[i][2].k # "absent" }
        nth(n) == CHOOSE i \in there : Cardinality({ j \in there : j < i }) = n - 1
    IN  JObj([n \in 1..Cardinality(there) |-> fields[nth(n)][1]],
             [n \in 1..Cardinality(there) |-> fields[nth(n)][2]])

Number(n) == JPosInt(Digits(n))

\* "id": 1, "name": "", "type": "", "x": 8, "y": 16, "rotation": 0,
\* "visible": true
NamedMembers ==
    << <<StrId, Number(1)>>, <<StrName, JStr(<<>>)>>, <<StrType, JStr(<<>>)>>,
       <<StrX, Number(8)>>, <<StrY, JFloat(Digits(1650))>>, <<StrRotation, Number(0)>>,
       <<StrVisible, JBool(TRUE)>> >>

PointRecord(x, y) == JObj(<<StrX, StrY>>, <<x, y>>)

\* Absent, a flag, a flag of the wrong type
FlagChoices == { JAbsent, JBool(TRUE), Number(1) }

\* Absent, a number, a number in a string
SizeChoices == { JAbsent, Number(32), JStr(<<51, 50>>) }

\* Absent, two points, a point without y, no array
PointsChoices ==
    { JAbsent,
      JArr(<<PointRecord(Number(0), Number(0)), PointRecord(Number(4), JFloat(Digits(250)))>>),
      JArr(<<PointRecord(Number(0), Number(0)), JObj(<<StrX>>, <<Number(4)>>)>>),
      JBool(TRUE) }

\* Absent; text, wrap, font and size; text and wrap; text without wrap; a
\* bare string
TextChoices ==
    { JAbsent,
      JObj(<<StrText, StrWrap, StrFontFamily, StrPixelSize>>,
           <<JStr(<<104, 105>>), JBool(TRUE), JStr(<<>>), Number(12)>>),
      JObj(<<StrWrap, StrText>>, <<JBool(FALSE), JStr(<<104, 105>>)>>),
      JObj(<<StrText>>, <<JStr(<<104, 105>>)>>),
      JStr(<<104, 105>>) }

ObjectDoc(point, ellipse, polyline, polygon, text, width, height) ==
    Members(NamedMembers \o
            << <<StrGid, Number(5)>>, <<StrHeight, height>>, <<StrWidth, width>>,
               <<StrText, text>>, <<StrPolygon, polygon>>, <<StrPolyline, polyline>>,
               <<StrEllipse, ellipse>>, <<StrPoint, point>> >>)

\* Every combination of the shape members, a record without an id, a
\* record with the point flag twice
ObjectDocs ==
    { ObjectDoc(point, ellipse, polyline, polygon, text, width, height) :
        point \in FlagChoices, ellipse \in FlagChoices,
        polyline \in PointsChoices, polygon \in PointsChoices \ { JBool(TRUE) },
        text \in TextChoices, width \in SizeChoices, height \in SizeChoices }
    \cup { Members(Tail(NamedMembers) \o << <<StrPoint, JBool(TRUE)>> >>),
           Members(NamedMembers \o
                   << <<StrPoint, JBool(TRUE)>>, <<StrWidth, Number(32)>>,
                      <<StrHeight, Number(32)>>, <<StrPoint, JBool(TRUE)>> >>) }

InitShape ==
    /\ pc = "object"
    /\ arg \in ObjectDocs
    /\ out = NoResult
    /\ tile = NoQuery

\* One object of an object layer is decoded
DeserializeObject ==
    /\ pc = "object"
    /\ out' = Object_deserialize(arg)
    /\ pc' = "done"
    /\ UNCHANGED <<arg, tile>>

SpecShape == InitShape /\ [][DeserializeObject]_vars

\* ---- what the claims say of an object's shape ----

ShapeKeys ==
    { StrPoint, StrEllipse, StrPolyline, StrPolygon, StrText, StrWidth, StrHeight }

\* The record has one member of the key
Single(o, key) == Cardinality(Positions(o, key)) = 1

IsFlag(o, key) == Single(o, key) /\ Get(o, key).k = "bool"

IsSize(o, key) == Single(o, key) /\ IsNumber(Get(o, key))

IsPointRecord(v) ==
    /\ v.k = "obj"
    /\ Single(v, StrX) /\ IsNumber(Get(v, StrX))
    /\ Single(v, StrY) /\ IsNumber(Get(v, StrY))

IsPointsArray(o, key) ==
    /\ Single(o, key)
    /\ Get(o, key).k = "arr"
    /\ \A i \in 1..Len(Get(o, key).a) : IsPointRecord(Get(o, key).a[i])

IsTextRecord(o) ==
    /\ Single(o, StrText)
    /\ LET v == Get(o, StrText)
       IN  /\ v.k = "obj"
           /\ Single(v, StrText) /\ Get(v, StrText).k = "str"
           /\ Single(v, StrWrap) /\ Get(v, StrWrap).k = "bool"
           /\ Positions(v, StrFontFamily) # {} =>
                 Single(v, StrFontFamily) /\ Get(v, StrFontFamily).k \in { "null", "str" }
           /\ Positions(v, StrPixelSize) # {} =>
                 Single(v, StrPixelSize)
                 /\ (Get(v, StrPixelSize).k = "null" \/ IsU32(Get(v, StrPixelSize)))

\* The patterns in their fixed order
Patterns(o) ==
    << <<"Point", IsFlag(o, StrPoint)>>,
       <<"Ellipse", IsFlag(o, StrEllipse) /\ IsSize(o, StrWidth) /\ IsSize(o, StrHeight)>>,
       <<"Polyline", IsPointsArray(o, StrPolyline)>>,
       <<"Polygon", IsPointsArray(o, StrPolygon)>>,
       <<"Text", IsTextRecord(o) /\ IsSize(o, StrWidth) /\ IsSize(o, StrHeight)>>,
       <<"Rect", IsSize(o, StrWidth) /\ IsSize(o, StrHeight)>> >>

\* The variant of the earliest satisfied pattern, Unknown when there is none
EarliestVariant(o) ==
    LET p == Patterns(o)
    IN  IF \A i \in 1..Len(p) : ~p[i][2] THEN "Unknown"
        ELSE p[CHOOSE i \in 1..Len(p) : p[i][2] /\ \A j \in 1..(i - 1) : ~p[j][2]][1]

\* The record decodes when its shape members are taken away
DecodesWithoutShape(o) == Object_deserialize(Without(o, ShapeKeys)).tag = "ok"

\* C7: an object record that decodes without its shape members decodes
\* with them, whatever they are, and its shape is the variant of the
\* earliest satisfied pattern in the order Point, Ellipse, Polyline,
\* Polygon, Text, Rect, and Unknown when no pattern is satisfied; a variant
\* with a size holds the record's width and height.
C7_ShapeResolution ==
    (pc = "done" /\ DecodesWithoutShape(arg)) =>
        /\ out.tag = "ok"
        /\ out.val.shape.variant = EarliestVariant(arg)
        /\ out.val.shape.variant \in { "Ellipse", "Text", "Rect" } =>
              /\ out.val.shape.width = ToF32(Get(arg, StrWidth))
              /\ out.val.shape.height = ToF32(Get(arg, StrHeight))
        /\ out.val = [Object_deserialize(Without(arg, ShapeKeys)).val
                        EXCEPT !.shape = out.val.shape]

\* A record with a text record, a width and a height and none of the
\* earlier patterns is decoded as Text, although Rect is satisfied too.
C7_Witness ==
    /\ pc = "done"
    /\ DecodesWithoutShape(arg)
    /\ IsTextRecord(arg)
    /\ Patterns(arg)[6][2]
    /\ \A i \in 1..4 : ~Patterns(arg)[i][2]
    /\ Positions(arg, StrPoint) # {}
    /\ out.tag = "ok"
    /\ out.val.shape.variant = "Text"

\* ------------------------------------------------------------------------
\* Maps (lib.rs): Map and Layer are read from the JSON text as it streams,
\* everything inside a layer's flattened LayerType from buffered content

\* Where serde_json stands after a PropertyValue failed to read from the
\* text: behind the element (TRUE) or somewhere before its end.  A scalar is
\* eaten by the type error and an array is not; in a record the members are
\* read in turn, a second "name" fails before its value, a "name" that is
\* no string fails at its value (eaten when a scalar) and the closing brace
\* is eaten only when that member was the last; every other failure comes
\* after the last member.
ElementLeftBehind(e) ==
    CASE IsScalar(e) -> TRUE
      [] e.k = "arr" -> FALSE
      [] e.k = "obj" ->
            LET names == Positions(e, StrName)
                first == CHOOSE i \in names : \A j \in names : i <= j
            IN  IF names = {} THEN TRUE
                ELSE IF e.a[first].k # "str"
                     THEN IsScalar(e.a[first]) /\ first = Len(e.keys)
                ELSE Cardinality(names) = 1

\* Where serde_json stands after deserialize_seq failed on the text: a
\* scalar is eaten by the type error, a record is not, and of an array
\* end_seq eats the closing bracket only when it comes next
SeqLeftBehind(v) ==
    CASE IsScalar(v) -> TRUE
      [] v.k = "obj" -> FALSE
      [] v.k = "arr" ->
            LET bad == CHOOSE i \in 1..Len(v.a) :
                          /\ PropertyValue_deserialize(v.a[i]).tag # "ok"
                          /\ \A j \in 1..(i - 1) : PropertyValue_deserialize(v.a[j]).tag = "ok"
            IN  bad = Len(v.a) /\ ElementLeftBehind(v.a[bad])

\* A field with `default` and deserialize_properties, read from the text:
\* its value, and whether the text is read up to the end of the field
StreamedProperties(v) ==
    IF v.k = "absent" THEN [value |-> Ok(None), synced |-> TRUE]
    ELSE With(deserialize_seq(v), LAMBDA r :
           [value  |-> IF r.tag = "ok" THEN Ok(Some(r.val))
                       ELSE IF r.tag = "panic" THEN Panic
                       ELSE Ok(None),
            synced |-> r.tag # "err" \/ SeqLeftBehind(v)])

\* Error::custom: a serde_json error that keeps the message alone
custom(e) == Err("serde_json")

\* Option<Color>, Color::deserialize
OptionColor_deserialize(v) ==
    CASE v.k \in { "absent", "null" } -> Ok(JNull)
      [] v.k = "str" ->
            With(Color_from_str(v.s), LAMBDA c :
              IF c.tag = "err" THEN custom(c)
              ELSE IF c.tag = "panic" THEN Panic
              ELSE Ok(JColor(c.val)))
      [] OTHER -> Err("serde_json")

\* TileLayer::deserialize
TileLayer_deserialize(layer_data, profile) ==
    With(TileLayer_from(layer_data, profile), LAMBDA layer :
      IF layer.tag = "err" THEN custom(layer) ELSE layer)

\* Vec<Object>: the objects in turn, up to the first that fails
Objects_deserialize(objects) ==
    With([i \in 1..Len(objects) |-> Object_deserialize(objects[i])], LAMBDA read :
      LET failed == { i \in 1..Len(read) : read[i].tag # "ok" }
          first  == CHOOSE i \in failed : \A j \in failed : i <= j
      IN  IF failed = {} THEN Ok([i \in 1..Len(read) |-> read[i].val])
          ELSE IF read[first].tag = "panic" THEN Panic
          ELSE Err("serde_json"))

\* ObjectGroup { objects, color }
ObjectGroup_deserialize(layer) ==
    With(Objects_deserialize(layer.objects), LAMBDA objects :
      IF objects.tag # "ok" THEN objects
      ELSE With(OptionColor_deserialize(layer.color), LAMBDA color :
             IF color.tag # "ok" THEN color
             ELSE Ok([objects |-> objects.val, color |-> color.val])))

\* LayerType, tagged by "type"
LayerType_deserialize(layer, profile) ==
    With(CASE layer.type = "tilelayer" -> TileLayer_deserialize(layer.data, profile)
           [] layer.type = "objectgroup" -> ObjectGroup_deserialize(layer)
           [] OTHER -> Err("serde_json"), LAMBDA data :
      IF data.tag # "ok" THEN data
      ELSE Ok([type |-> layer.type, layer |-> data.val]))

\* Layer: the members are read in turn from the text, properties among
\* them; the next member cannot be read when the text was left inside the
\* properties.  The flattened LayerType is read last, from the members
\* kept aside.
Layer_deserialize(layer, profile) ==
    With(StreamedProperties(layer.properties), LAMBDA properties :
      IF properties.value.tag = "panic" THEN Panic
      ELSE IF ~properties.synced THEN Err("serde_json")
      ELSE With(LayerType_deserialize(layer, profile), LAMBDA data :
             IF data.tag # "ok" THEN data
             ELSE Ok([name |-> layer.name, data |-> data.val,
                      properties |-> properties.value.val])))

\* Vec<Layer>: the layers in turn, up to the first that fails
Layers_deserialize(layers, profile) ==
    With([i \in 1..Len(layers) |-> Layer_deserialize(layers[i], profile)], LAMBDA read :
      LET failed == { i \in 1..Len(read) : read[i].tag # "ok" }
          first  == CHOOSE i \in failed : \A j \in failed : i <= j
      IN  IF failed = {} THEN Ok([i \in 1..Len(read) |-> read[i].val])
          ELSE read[first])

\* Map, its members read in turn from the text in the order the editor
\* writes them: backgroundcolor, height, layers, properties, width
Map_deserialize(doc) ==
    With(OptionColor_deserialize(doc.backgroundcolor), LAMBDA background_colour :
      IF background_colour.tag # "ok" THEN background_colour
      ELSE With(Layers_deserialize(doc.layers, doc.profile), LAMBDA layers :
             IF layers.tag # "ok" THEN layers
             ELSE With(StreamedProperties(doc.properties), LAMBDA properties :
                    IF properties.value.tag = "panic" THEN Panic
                    ELSE IF ~properties.synced THEN Err("serde_json")
                    ELSE Ok([width |-> doc.width, height |-> doc.height,
                             layers |-> layers.val,
                             background_colour |-> background_colour.val,
                             properties |-> properties.value.val]))))

\* parse: every error of serde_json::from_reader becomes a ParsingError
parse(doc) ==
    With(Map_deserialize(doc), LAMBDA map :
      IF map.tag = "err" THEN Err("ParsingError") ELSE map)

\* ---- the maps decoded ----

PropertyPi == Record(<<112, 105>>, StrFloat, JFloat(Digits(314)))

PropertyAnswer == Record(<<97, 110, 115, 119, 101, 114>>, StrInt, Number(42))

PropertyOfNoType == Record(<<112, 105>>, <<98, 111, 103, 117, 115>>, Number(1))

\* [pi, answer]
GoodProperties == JArr(<<PropertyPi, PropertyAnswer>>)

\* {"pi": 3.14}, the record older versions of the editor wrote
RecordProperties == JObj(<<<<112, 105>>>>, <<JFloat(Digits(314))>>)

\* A bad record after a good one, and before it
BadLastProperties == JArr(<<PropertyPi, PropertyOfNoType>>)

BadFirstProperties == JArr(<<PropertyOfNoType, PropertyAnswer>>)

\* [{"name": 1, "type": "int", "value": 42}]
BadNameProperties ==
    JArr(<<JObj(<<StrName, StrType, StrValue>>, <<Number(1), JStr(StrInt), Number(42)>>)>>)

MapProperties ==
    { JAbsent, GoodProperties, RecordProperties, JStr(<<>>), BadLastProperties,
      BadFirstProperties, BadNameProperties }

\* Absent, "#ff8000", "#ff80"
BackgroundColors ==
    { JAbsent, JStr(<<35, 102, 102, 56, 48, 48, 48>>), JStr(<<35, 102, 102, 56, 48>>) }

LayerDoc(type, properties, data, objects) ==
    [type |-> type, name |-> <<76>>, properties |-> properties, data |-> data,
     objects |-> objects, color |-> JAbsent]

OneId == <<U32(258, 772)>>

NoData == LayerData(JNull, U32Small(0), U32Small(0), "absent", "absent")

\* One tile, written as a number array and as zlib base64, and the ways of
\* BrokenData of writing it wrongly
TileData ==
    { LayerData(CsvData(OneId), U32Small(1), U32Small(1), "csv", "absent"),
      LayerData(Base64Data(OneId, "zlib"), U32Small(1), U32Small(1), "base64", "zlib") }
    \cup { LayerData(b[2], U32Small(1), U32Small(1), "base64", "zlib") :
             b \in { d \in BrokenData(OneId, "zlib") :
                       d[1] \in { "badchar", "cut", "notastring", "badsum" } } }

\* An object of a group, a rectangle, with its properties
ObjectOf(properties) ==
    Members(NamedMembers \o
            << <<StrProperties, properties>>, <<StrWidth, Number(32)>>,
               <<StrHeight, Number(32)>> >>)

LayerDocs ==
    { LayerDoc("tilelayer", JAbsent, d, <<>>) : d \in TileData }
    \cup { LayerDoc("tilelayer", p, CHOOSE d \in TileData : d.encoding = "csv", <<>>) :
             p \in { GoodProperties, RecordProperties, BadLastProperties, BadFirstProperties } }
    \cup { LayerDoc("objectgroup", JAbsent, NoData, <<ObjectOf(p)>>) :
             p \in { JAbsent, GoodProperties, RecordProperties, BadFirstProperties } }
    \cup { LayerDoc("objectgroup", RecordProperties, NoData, <<>>) }

MapDoc(backgroundcolor, layers, properties, profile) ==
    [width |-> U32Small(1), height |-> U32Small(1), backgroundcolor |-> backgroundcolor,
     layers |-> layers, properties |-> properties, profile |-> profile]

MapDocs ==
    { MapDoc(c, l, p, "release") :
        c \in BackgroundColors, l \in SeqsUpTo(LayerDocs, MaxLayers), p \in MapProperties }

InitMap ==
    /\ pc = "map"
    /\ arg \in MapDocs
    /\ out = NoResult
    /\ tile = NoQuery

\* One call of parse on the drawn map
ParseMap ==
    /\ pc = "map"
    /\ out' = parse(arg)
    /\ pc' = "done"
    /\ UNCHANGED <<arg, tile>>

SpecMap == InitMap /\ [][ParseMap]_vars

\* ---- what the claims say of a map ----

\* A properties field whose value is no properties array
Unparseable(v) == v.k # "absent" /\ deserialize_seq(v).tag = "err"

Lenient(v) == IF Unparseable(v) THEN JAbsent ELSE v

LenientObject(o) ==
    IF Unparseable(Get(o, StrProperties)) THEN Without(o, { StrProperties }) ELSE o

LenientLayer(l) ==
    [l EXCEPT !.properties = Lenient(l.properties),
              !.objects = [i \in 1..Len(l.objects) |-> LenientObject(l.objects[i])]]

\* The map with every unparseable properties field taken away
LenientMap(doc) ==
    [doc EXCEPT !.properties = Lenient(doc.properties),
                !.layers = [i \in 1..Len(doc.layers) |-> LenientLayer(doc.layers[i])]]

HasUnparseable(doc) ==
    \/ Unparseable(doc.properties)
    \/ \E i \in 1..Len(doc.layers) :
          \/ Unparseable(doc.layers[i].properties)
          \/ \E j \in 1..Len(doc.layers[i].objects) :
                Unparseable(Get(doc.layers[i].objects[j], StrProperties))

\* C6: a properties field of a map, of a layer or of an object that cannot
\* be parsed as a properties array decodes as no properties, and the map
\* decodes exactly as it does with the field absent; so a map that decodes
\* with the field absent never fails because of it.
C6_PropertiesLeniency ==
    (pc = "done" /\ HasUnparseable(arg)) => out = parse(LenientMap(arg))

\* The kind of the stage at which the map fails: the color, the first
\* failing tile layer's codec, or the JSON
StageKind(doc) ==
    LET bad == { i \in 1..Len(doc.layers) :
                    Layer_deserialize(doc.layers[i], doc.profile).tag = "err" }
        first == CHOOSE i \in bad : \A j \in bad : i <= j
        layer == doc.layers[first]
    IN  IF OptionColor_deserialize(doc.backgroundcolor).tag = "err"
        THEN IF doc.backgroundcolor.k = "str" THEN Other ELSE "ParsingError"
        ELSE IF bad # {} /\ layer.type = "tilelayer"
                /\ StreamedProperties(layer.properties).synced
             THEN TileLayer_from(layer.data, doc.profile).err
        ELSE "ParsingError"

\* C8: a failure of parse has the kind of the stage that failed:
\* DecompressingError for a bad zlib or gzip stream, Base64DecodingError
\* for bad base64, Other (a format error) for tile data of the wrong type, a
\* byte length that is no multiple of 4 or a bad color, and ParsingError for
\* the rest.
C8_ErrorKinds ==
    (pc = "done" /\ out.tag = "err") => out.err = StageKind(arg)

====
